---- MODULE Spec2Model ----
(***************************************************************************)
(* Credential and session security subsystem of the site framework:        *)
(* the sessions DAO, the authentication middleware and the auth route      *)
(* handlers, the notification-channel DAO with its at-rest encryption,     *)
(* and the webhook URL guard with the notification senders.                *)
(*                                                                         *)
(* The specifications of the module:                                       *)
(*   Spec          sessions, accounts, API keys, authenticate and the      *)
(*                 /auth routes                                            *)
(*   SpecAccess    authenticate, requireAuth and requireAdmin under        *)
(*                 account administration (privilege, deletion, API keys)  *)
(*   SpecResolve   requests resolved by API key or token as time passes    *)
(*   SpecUsers     logins and the admin's changes and deletions of         *)
(*                 accounts, interleaved at the awaits                     *)
(*   SpecApiKeys   API-key generation, regeneration and revocation         *)
(*   SpecCipher    resolveEncryptionKey over process restarts, encrypt     *)
(*   SpecDecrypt   decrypt of current, legacy and malformed values         *)
(*   SpecChannels  notificationChannels.save / getDecrypted / delete       *)
(*   SpecWebhook   validateWebhookUrl, isPrivateIP and the test senders    *)
(***************************************************************************)
EXTENDS Integers, Sequences, FiniteSets, TLC

VARIABLES
  now,          \* the clock, in ticks (Date.now() and SQLite's datetime('now'))
  users,        \* the users table: id -> row (NoUser when there is no row)
  sessions,     \* the sessions table: a set of rows
  tokens,       \* every JWT signed so far by generateToken (held by clients)
  nextJti,      \* the next value crypto.randomBytes(16) yields for a jti
  nextKey,      \* the next value crypto.randomBytes(32) yields for an API key
  pendingLogin, \* a login suspended at `await users.verifyPassword`
  pendingUpdate, \* a users.update suspended at `await bcrypt.hash`
  resp,         \* what the last handler did: its response and req.user
  revokedEver,  \* history: the tokenIds a revoke has been applied to
  issuedAs,     \* history: per API key, the privilege of its account at issuance
  logLines,     \* the key material in the audit log and on the console
  channels,     \* the notification_channels table: type -> row
  nextIv,       \* the next value crypto.randomBytes(16) yields for an IV
  envKey,       \* process.env.ENCRYPTION_KEY of the running process
  keyFile,      \* the file db/.encryption-key
  ENCRYPTION_KEY_BUF,  \* the key resolved when the module was loaded
  pid,          \* the number of the running process, counted from the first start
  vault,        \* history: the encrypt calls made so far, with their results
  opened,       \* the last decrypt call of the running process and its result
  lastSave,     \* history: the last notificationChannels.save call
  supplied,     \* history: the last non-empty secret supplied per (type, field)
  nodeEnv,      \* process.env.NODE_ENV
  send,         \* the test-send being answered: its sender, url and URL check
  fetched       \* the outbound fetch of that test-send, if it made one

authVars == <<now, users, sessions, tokens, nextJti, nextKey,
              pendingLogin, pendingUpdate, resp, revokedEver, issuedAs, logLines>>
chanVars == <<channels, nextIv, lastSave, supplied>>
keyVars == <<envKey, keyFile, ENCRYPTION_KEY_BUF, pid, vault, opened>>
hookVars == <<nodeEnv, send, fetched>>
vars == <<authVars, chanVars, keyVars, hookVars>>


\* ------------------------------------------------------------------ bounds
MaxTime == 4
MaxTokens == 2

\* the clock's resolution: two ticks to the day, so that two instants of one
\* UTC date can differ
TicksPerDay == 2

\* the seeded admin (id 1) and one account created by an admin (id 2)
UserIds == {1, 2}
\* the values crypto.randomBytes(32) yields for API keys, in order; a request
\* may carry any of them, generated already or not
ApiKeys == {1}
Passwords == {"admin", "hunter2"}

\* ------------------------------------------------- timestamps as stored text
\* Timestamps are compared by SQLite as TEXT (memcmp). A text is modelled as
\* <<date, separator char code, time of day>>: the zero-padded date and time
\* parts order as their numbers do, the separator is one character.
CharT == 84
CharSpace == 32

\* new Date(exp * 1000).toISOString(): "YYYY-MM-DDTHH:MM:SS.000Z"
toISOString(t) == <<t \div TicksPerDay, CharT, t % TicksPerDay>>

\* SQLite datetime('now'): "YYYY-MM-DD HH:MM:SS"
datetimeNow(t) == <<t \div TicksPerDay, CharSpace, t % TicksPerDay>>

\* Date.parse of a stored ISO text: the instant it denotes
InstantOf(text) == text[1] * TicksPerDay + text[3]

\* SQLite's binary comparison of two TEXT values
TextLess(a, b) ==
  \/ a[1] < b[1]
  \/ a[1] = b[1] /\ a[2] < b[2]
  \/ a[1] = b[1] /\ a[2] = b[2] /\ a[3] < b[3]

TextGreater(a, b) == TextLess(b, a)

\* the token lifetime: JWT_EXPIRY, '24h' by default, one day
JWT_EXPIRY == TicksPerDay

\* ------------------------------------------------------------ sessions DAO
create(S, userId, tokenId, expiresAt) ==
  S \cup {[user_id |-> userId, token_id |-> tokenId,
           expires_at |-> expiresAt, revoked |-> 0]}

isValid(S, tokenId, t) ==
  \E s \in S : /\ s.token_id = tokenId
               /\ s.revoked = 0
               /\ TextGreater(s.expires_at, datetimeNow(t))

\* mutant of revoke: the row is deleted instead of marked
revokeDeletes(S, tokenId) == {s \in S : s.token_id # tokenId}

\* mutant of revoke: the UPDATE changes no row
revokeNoop(S, tokenId) == S

revoke(S, tokenId) ==
  {IF s.token_id = tokenId THEN [s EXCEPT !.revoked = 1] ELSE s : s \in S}

\* mutant of revokeAllForUser: the WHERE clause is lost
revokeAllForEveryone(S, userId) == {[s EXCEPT !.revoked = 1] : s \in S}

revokeAllForUser(S, userId) ==
  {IF s.user_id = userId THEN [s EXCEPT !.revoked = 1] ELSE s : s \in S}

\* mutant of cleanup: revoked rows are deleted too, expired or not
cleanupRevoked(S, t) ==
  {s \in S : ~TextLess(s.expires_at, datetimeNow(t)) /\ s.revoked = 0}

cleanup(S, t) == {s \in S : ~TextLess(s.expires_at, datetimeNow(t))}

\* --------------------------------------------------------------- users DAO
\* SQL NULL in the api_key column, and the digest of a plaintext key
NoKey == <<>>
sha256(apiKey) == <<"sha256", apiKey>>

\* apiKey.slice(-4), and the key itself as text
lastFour(apiKey) == <<"last4", apiKey>>
plaintext(apiKey) == <<"plain", apiKey>>

\* SQL NULL in the last_login column
Never == <<>>

\* bcrypt.hash(password, SALT_ROUNDS)
bcryptHash(password) == <<"bcrypt", password>>

\* the result of a lookup that finds no row
NoUser ==
  [id |-> 0, password_hash |-> <<>>, is_admin |-> 0, api_key |-> NoKey,
   api_key_last_four |-> NoKey, last_login |-> Never]

getById(U, id) == IF id \in DOMAIN U THEN U[id] ELSE NoUser

\* usernames are unique; the model names an account by its id
getByUsername(U, username) == getById(U, username)

getByApiKey(U, apiKey) ==
  LET hashedKey == sha256(apiKey)
      hit == {id \in DOMAIN U : U[id] # NoUser /\ U[id].api_key = hashedKey}
  IN IF hit = {} THEN NoUser ELSE U[CHOOSE id \in hit : TRUE]

\* users.updateLastLogin(id): last_login = CURRENT_TIMESTAMP
updateLastLogin(U, id, t) == [U EXCEPT ![id].last_login = datetimeNow(t)]

\* mutant of verifyPassword: any password is accepted
verifyPasswordAny(user, password) == TRUE

\* bcrypt.compare(password, user.password_hash)
verifyPassword(user, password) == user.password_hash = bcryptHash(password)

\* the INSERT into sessions fails on a duplicate token_id (UNIQUE) and on a
\* user_id with no users row (FOREIGN KEY with foreign_keys = ON)
createAccepted(U, S, userId, tokenId) ==
  /\ getById(U, userId) # NoUser
  /\ \A s \in S : s.token_id # tokenId

\* mutant of cascadeDelete: the foreign key has no ON DELETE CASCADE
cascadeNone(S, id) == S

\* ON DELETE CASCADE from sessions.user_id to users.id
cascadeDelete(S, id) == {s \in S : s.user_id # id}

\* ------------------------------------------------------------------ tokens
\* a request that carries no token in a given place
NoToken == [sub |-> 0, isAdmin |-> FALSE, jti |-> 0, exp |-> 0, sig |-> "none"]

\* mutant of jwtSign: the lifetime is dropped, exp = iat
jwtSignNoLifetime(user, tokenId, t) ==
  [sub |-> user.id, isAdmin |-> (user.is_admin = 1), jti |-> tokenId,
   exp |-> t, sig |-> "good"]

\* jwt.sign(payload, JWT_SECRET, { expiresIn: JWT_EXPIRY })
jwtSign(user, tokenId, t) ==
  [sub |-> user.id, isAdmin |-> (user.is_admin = 1), jti |-> tokenId,
   exp |-> t + JWT_EXPIRY, sig |-> "good"]

\* jwt.verify: the signature is ours and the token is not past its exp
jwtVerify(token, t) == token.sig = "good" /\ t < token.exp

\* mutant of verifyToken: the session lookup is skipped
verifyTokenNoSession(S, token, t) ==
  IF jwtVerify(token, t) THEN token ELSE NoToken

verifyToken(S, token, t) ==
  IF jwtVerify(token, t) /\ isValid(S, token.jti, t) THEN token ELSE NoToken

extractToken(req) ==
  IF req.bearer # NoToken THEN req.bearer
  ELSE IF req.cookie # NoToken THEN req.cookie
  ELSE NoToken

\* req.user = null
Anonymous == [id |-> 0, isAdmin |-> FALSE, tokenId |-> 0, authMethod |-> "none"]

\* mutant of authenticate: the privilege of an API-key caller is the one its
\* account had when the key was issued
authenticateCachedPrivilege(U, S, req, t) ==
  LET keyUser == IF req.apiKey # 0 THEN getByApiKey(U, req.apiKey) ELSE NoUser
      token == extractToken(req)
      decoded == IF token # NoToken THEN verifyToken(S, token, t) ELSE NoToken
      dbUser == IF decoded # NoToken THEN getById(U, decoded.sub) ELSE NoUser
  IN IF keyUser # NoUser
       THEN [id |-> keyUser.id, isAdmin |-> (issuedAs[req.apiKey] = "admin"),
             tokenId |-> 0, authMethod |-> "api_key"]
     ELSE IF dbUser # NoUser
       THEN [id |-> dbUser.id, isAdmin |-> (dbUser.is_admin = 1),
             tokenId |-> decoded.jti, authMethod |-> "jwt"]
     ELSE Anonymous

\* mutant of authenticate: an API key that matches no account ends the
\* resolution, the caller is anonymous
authenticateKeyOrNothing(U, S, req, t) ==
  LET keyUser == IF req.apiKey # 0 THEN getByApiKey(U, req.apiKey) ELSE NoUser
      token == extractToken(req)
      decoded == IF token # NoToken THEN verifyToken(S, token, t) ELSE NoToken
      dbUser == IF decoded # NoToken THEN getById(U, decoded.sub) ELSE NoUser
  IN IF keyUser # NoUser
       THEN [id |-> keyUser.id, isAdmin |-> (keyUser.is_admin = 1),
             tokenId |-> 0, authMethod |-> "api_key"]
     ELSE IF req.apiKey # 0 THEN Anonymous
     ELSE IF dbUser # NoUser
       THEN [id |-> dbUser.id, isAdmin |-> (dbUser.is_admin = 1),
             tokenId |-> decoded.jti, authMethod |-> "jwt"]
     ELSE Anonymous

\* mutant of authenticate: the token is tried first, the API key second
authenticateTokenFirst(U, S, req, t) ==
  LET keyUser == IF req.apiKey # 0 THEN getByApiKey(U, req.apiKey) ELSE NoUser
      token == extractToken(req)
      decoded == IF token # NoToken THEN verifyToken(S, token, t) ELSE NoToken
      dbUser == IF decoded # NoToken THEN getById(U, decoded.sub) ELSE NoUser
  IN IF dbUser # NoUser
       THEN [id |-> dbUser.id, isAdmin |-> (dbUser.is_admin = 1),
             tokenId |-> decoded.jti, authMethod |-> "jwt"]
     ELSE IF keyUser # NoUser
       THEN [id |-> keyUser.id, isAdmin |-> (keyUser.is_admin = 1),
             tokenId |-> 0, authMethod |-> "api_key"]
     ELSE Anonymous

authenticate(U, S, req, t) ==
  LET keyUser == IF req.apiKey # 0 THEN getByApiKey(U, req.apiKey) ELSE NoUser
      token == extractToken(req)
      decoded == IF token # NoToken THEN verifyToken(S, token, t) ELSE NoToken
      dbUser == IF decoded # NoToken THEN getById(U, decoded.sub) ELSE NoUser
  IN IF keyUser # NoUser
       THEN [id |-> keyUser.id, isAdmin |-> (keyUser.is_admin = 1),
             tokenId |-> 0, authMethod |-> "api_key"]
     ELSE IF dbUser # NoUser
       THEN [id |-> dbUser.id, isAdmin |-> (dbUser.is_admin = 1),
             tokenId |-> decoded.jti, authMethod |-> "jwt"]
     ELSE Anonymous

\* the credentials a request may carry: no API key (0) or any key value; in
\* the Authorization header and in the cookie, nothing, a token we signed, or
\* a token naming the admin's first session with a signature that is not ours
Forged == [sub |-> 1, isAdmin |-> TRUE, jti |-> 1, exp |-> MaxTime + 1, sig |-> "bad"]
CarriedTokens == {NoToken, Forged} \cup tokens
CarriedPairs ==
  {<<b, NoToken>> : b \in CarriedTokens} \cup {<<NoToken, c>> : c \in CarriedTokens}
    \cup {<<Forged, tk>> : tk \in tokens}
Requests ==
  {[apiKey |-> k, bearer |-> bc[1], cookie |-> bc[2]] :
     k \in {0} \cup ApiKeys, bc \in CarriedPairs}

\* the credentials the admin routes are called with: nothing, an API key, or
\* a token we signed in the Authorization header
AdminRequests ==
  {[apiKey |-> k, bearer |-> NoToken, cookie |-> NoToken] : k \in {0} \cup ApiKeys}
    \cup {[apiKey |-> 0, bearer |-> b, cookie |-> NoToken] : b \in tokens}

\* ---------------------------------------------------------------- responses
\* audit is the login entry the handler added to the audit log: "warn" for
\* a failed attempt, "info" for a login, "none" otherwise
Response(op, status, user, req, issued) ==
  [op |-> op, status |-> status, user |-> user,
   token |-> extractToken(req), issued |-> issued, audit |-> "none"]

NoRequest == [apiKey |-> 0, bearer |-> NoToken, cookie |-> NoToken]
NoResp == Response("none", 0, Anonymous, NoRequest, 0)
NoLogin == [user |-> NoUser, password |-> ""]

\* no users.update is suspended; isAdmin is "true", "false" or "undefined"
NoUpdate == [id |-> 0, password |-> "", isAdmin |-> "undefined"]

\* the username and password of a login request body; 0 and "" are a missing
\* or empty field
Usernames == {0} \cup UserIds
BodyPasswords == {""} \cup Passwords

\* seedDefaultData: the default admin account
Seed ==
  [id |-> 1, password_hash |-> bcryptHash("admin"), is_admin |-> 1,
   api_key |-> NoKey, api_key_last_four |-> NoKey, last_login |-> Never]

\* an account an admin created with POST /users
Member(id) ==
  [id |-> id, password_hash |-> bcryptHash("hunter2"), is_admin |-> 0,
   api_key |-> NoKey, api_key_last_four |-> NoKey, last_login |-> Never]

InitAuth ==
  /\ now = 0
  /\ users = [id \in UserIds |-> IF id = 1 THEN Seed ELSE Member(id)]
  /\ sessions = {}
  /\ tokens = {}
  /\ nextJti = 1
  /\ nextKey = 1
  /\ pendingLogin = NoLogin
  /\ pendingUpdate = NoUpdate
  /\ resp = NoResp
  /\ revokedEver = {}
  /\ issuedAs = [k \in ApiKeys |-> "none"]
  /\ logLines = {}


\* ------------------------------------------------------------ auth actions
\* time passes
Tick ==
  /\ now < MaxTime
  /\ now' = now + 1
  /\ resp' = NoResp
  /\ UNCHANGED <<users, sessions, tokens, nextJti, nextKey,
                 pendingLogin, revokedEver>>

\* POST /auth/login up to `await users.verifyPassword`. A missing username or
\* password is answered 400, an unknown username 401 at once. bcrypt.compare works on the row already read, so a
\* wrong password ends in the same 401 whatever runs during the await: that
\* path is taken in one step. With the right password the handler suspends,
\* holding the row it read.
LoginBegin(username, password) ==
  /\ pendingLogin = NoLogin
  /\ nextJti <= MaxTokens
  /\ LET user == getByUsername(users, username)
     IN IF username = 0 \/ password = ""
          THEN /\ resp' = Response("login", 400, Anonymous, NoRequest, 0)
               /\ UNCHANGED pendingLogin
        ELSE IF user = NoUser \/ ~verifyPassword(user, password)
          THEN /\ resp' = [Response("login", 401, Anonymous, NoRequest, 0)
                             EXCEPT !.audit = "warn"]
               /\ UNCHANGED pendingLogin
          ELSE /\ pendingLogin' = [user |-> user, password |-> password]
               /\ resp' = NoResp
  /\ UNCHANGED <<now, users, sessions, tokens, nextJti, nextKey, revokedEver>>

\* POST /auth/login after the await: generateToken(user), the cookie,
\* updateLastLogin, the audit entry and the response. A failed INSERT makes
\* generateToken throw after the token was signed.
LoginFinish ==
  /\ pendingLogin # NoLogin
  /\ LET user == pendingLogin.user
         token == jwtSign(user, nextJti, now)
     IN /\ IF ~createAccepted(users, sessions, user.id, nextJti)
             THEN /\ resp' = Response("login", 500, Anonymous, NoRequest, 0)
                  /\ UNCHANGED <<sessions, users>>
             ELSE /\ sessions' = create(sessions, user.id, nextJti,
                                        toISOString(token.exp))
                  /\ users' = updateLastLogin(users, user.id, now)
                  /\ resp' = [Response("login", 200,
                       [id |-> user.id, isAdmin |-> (user.is_admin = 1),
                        tokenId |-> nextJti, authMethod |-> "login"],
                       NoRequest, nextJti) EXCEPT !.audit = "info"]
        /\ tokens' = tokens \cup {token}
        /\ nextJti' = nextJti + 1
  /\ pendingLogin' = NoLogin
  /\ UNCHANGED <<now, nextKey, revokedEver>>

\* POST /auth/logout: authenticate, then logout
Logout(req) ==
  LET user == authenticate(users, sessions, req, now)
  IN /\ IF user # Anonymous /\ user.tokenId # 0
          THEN /\ sessions' = revoke(sessions, user.tokenId)
               /\ revokedEver' = revokedEver \cup {user.tokenId}
          ELSE UNCHANGED <<sessions, revokedEver>>
     /\ resp' = Response("logout", 200, user, req, 0)
     /\ UNCHANGED <<now, users, tokens, nextJti, nextKey, pendingLogin>>

\* requireAuth: 401 for an anonymous caller, else 0 (next() is called)
requireAuth(user) == IF user = Anonymous THEN 401 ELSE 0

\* POST /auth/refresh: requireAuth, then refreshToken
Refresh(req) ==
  LET user == authenticate(users, sessions, req, now)
      revoked == IF user.tokenId # 0 THEN revoke(sessions, user.tokenId)
                 ELSE sessions
      row == getById(users, user.id)
      token == jwtSign(row, nextJti, now)
  IN /\ nextJti + (IF pendingLogin = NoLogin THEN 0 ELSE 1) <= MaxTokens
     /\ IF requireAuth(user) # 0
          THEN /\ resp' = Response("refresh", requireAuth(user), user, req, 0)
               /\ UNCHANGED <<sessions, tokens, nextJti, revokedEver>>
        ELSE IF row = NoUser
          THEN /\ sessions' = revoked
               /\ revokedEver' = revokedEver \cup ({user.tokenId} \ {0})
               /\ resp' = Response("refresh", 404, user, req, 0)
               /\ UNCHANGED <<tokens, nextJti>>
        ELSE /\ sessions' = create(revoked, row.id, nextJti, toISOString(token.exp))
             /\ revokedEver' = revokedEver \cup ({user.tokenId} \ {0})
             /\ tokens' = tokens \cup {token}
             /\ nextJti' = nextJti + 1
             /\ resp' = Response("refresh", 200, user, req, nextJti)
     /\ UNCHANGED <<now, users, nextKey, pendingLogin>>

\* sessions.revokeAllForUser(userId): forced de-authentication
RevokeAllForUser(userId) ==
  /\ sessions' = revokeAllForUser(sessions, userId)
  /\ revokedEver' = revokedEver \cup {s.token_id : s \in {x \in sessions : x.user_id = userId}}
  /\ resp' = NoResp
  /\ UNCHANGED <<now, users, tokens, nextJti, nextKey, pendingLogin>>

\* the hourly timer and the start-up call of sessions.cleanup()
Cleanup ==
  /\ sessions' = cleanup(sessions, now)
  /\ resp' = NoResp
  /\ UNCHANGED <<now, users, tokens, nextJti, nextKey, pendingLogin,
                 revokedEver>>


\* users.delete(id), with the cascade to the account's sessions
deleteUser(U, id) == [U EXCEPT ![id] = NoUser]

\* users.getAll().filter(u => u.is_admin).length
adminCount(U) == Cardinality({id \in DOMAIN U : U[id] # NoUser /\ U[id].is_admin = 1})

\* mutant of requireAdmin: any authenticated caller passes
requireAdminNoCheck(user) == requireAuth(user)

\* requireAdmin: requireAuth first, then 403 for a non-admin, else 0
requireAdmin(user) ==
  IF requireAuth(user) # 0 THEN requireAuth(user)
  ELSE IF ~user.isAdmin THEN 403
  ELSE 0

\* DELETE /users/:id
DeleteUserRoute(req, id) ==
  LET user == authenticate(users, sessions, req, now)
      target == getById(users, id)
      status == IF requireAdmin(user) # 0 THEN requireAdmin(user)
                ELSE IF target = NoUser THEN 404
                ELSE IF id = user.id THEN 400
                ELSE IF target.is_admin = 1 /\ adminCount(users) <= 1 THEN 400
                ELSE 200
  IN /\ IF status = 200
          THEN /\ users' = deleteUser(users, id)
               /\ sessions' = cascadeDelete(sessions, id)
          ELSE UNCHANGED <<users, sessions>>
     /\ resp' = Response("deleteUser", status, user, NoRequest, 0)
     /\ UNCHANGED <<now, tokens, nextJti, nextKey, pendingLogin, revokedEver>>

\* users.generateApiKey(id)
generateApiKey(U, id, apiKey) ==
  [U EXCEPT ![id].api_key = sha256(apiKey),
            ![id].api_key_last_four = lastFour(apiKey)]

\* a line of the audit log (logs.add) or of the console, by the key material
\* it shows
LogLine(sink, material) == [sink |-> sink, material |-> material]

\* POST /users/:id/api-key
GenerateApiKeyRoute(req, id) ==
  LET user == authenticate(users, sessions, req, now)
      target == getById(users, id)
      status == IF requireAdmin(user) # 0 THEN requireAdmin(user)
                ELSE IF target = NoUser THEN 404
                ELSE 200
  IN /\ nextKey \in ApiKeys
     /\ IF status = 200
          THEN /\ users' = generateApiKey(users, id, nextKey)
               /\ nextKey' = nextKey + 1
               /\ issuedAs' = [issuedAs EXCEPT ![nextKey] =
                                 IF target.is_admin = 1 THEN "admin" ELSE "member"]
               /\ logLines' = logLines \cup {LogLine("audit", lastFour(nextKey))}
          ELSE UNCHANGED <<users, nextKey, issuedAs, logLines>>
     /\ resp' = Response("apiKey", status, user, NoRequest, 0)
     /\ UNCHANGED <<now, sessions, tokens, nextJti, pendingLogin, pendingUpdate,
                    revokedEver>>

\* the response has been sent: the request is over
Deliver ==
  /\ resp # NoResp
  /\ resp' = NoResp
  /\ UNCHANGED <<now, users, sessions, tokens, nextJti, nextKey, pendingLogin,
                 pendingUpdate, revokedEver, issuedAs, logLines>>
  /\ UNCHANGED <<chanVars, keyVars, hookVars>>

\* One handler runs at a time up to its response or its next await (Node's
\* single thread); the response of the handler that just ran stays in resp
\* until it is delivered.
Idle == resp = NoResp /\ UNCHANGED <<chanVars, keyVars, hookVars>>

\* the handlers that generate no API key and start no users.update leave the
\* issuance history, the logged key material and the suspended update alone
Kept == UNCHANGED <<issuedAs, logLines, pendingUpdate>>

Next ==
  \/ Deliver
  \/ Idle /\ Kept /\ Tick
  \/ Idle /\ Kept /\ \E u \in Usernames, p \in BodyPasswords : LoginBegin(u, p)
  \/ Idle /\ Kept /\ LoginFinish
  \/ Idle /\ Kept /\ \E req \in Requests : Logout(req)
  \/ Idle /\ Kept /\ \E req \in Requests : Refresh(req)
  \/ Idle /\ Kept /\ \E u \in UserIds : RevokeAllForUser(u)
  \/ Idle /\ Kept /\ Cleanup
  \/ Idle /\ Kept /\ \E req \in AdminRequests, u \in UserIds : DeleteUserRoute(req, u)
  \/ Idle /\ \E req \in AdminRequests, u \in UserIds : GenerateApiKeyRoute(req, u)

\* ========================================================= access levels
\* authenticate of the single-file auth module that ships beside the modular
\* one (require('./database')): the API key first, then the token, whose
\* embedded sub and isAdmin claims become the identity
authenticateMonolith(U, S, req, t) ==
  LET keyUser == IF req.apiKey # 0 THEN getByApiKey(U, req.apiKey) ELSE NoUser
      token == extractToken(req)
      decoded == IF token # NoToken THEN verifyToken(S, token, t) ELSE NoToken
  IN IF keyUser # NoUser
       THEN [id |-> keyUser.id, isAdmin |-> (keyUser.is_admin = 1),
             tokenId |-> 0, authMethod |-> "api_key"]
     ELSE IF decoded # NoToken
       THEN [id |-> decoded.sub, isAdmin |-> decoded.isAdmin,
             tokenId |-> decoded.jti, authMethod |-> "jwt"]
     ELSE Anonymous

\* users.update(id, { isAdmin }): without a password there is no await before
\* the UPDATE
update(U, id, isAdmin) == [U EXCEPT ![id].is_admin = IF isAdmin THEN 1 ELSE 0]

\* PUT /users/:id with body { isAdmin }
UpdateUserRoute(req, id, isAdmin) ==
  LET user == authenticate(users, sessions, req, now)
      target == getById(users, id)
      status == IF requireAdmin(user) # 0 THEN requireAdmin(user)
                ELSE IF target = NoUser THEN 404
                ELSE IF target.is_admin = 1 /\ ~isAdmin /\ adminCount(users) <= 1
                  THEN 400
                ELSE 200
  IN /\ IF status = 200
          THEN users' = update(users, id, isAdmin)
          ELSE UNCHANGED users
     /\ resp' = Response("updateUser", status, user, NoRequest, 0)
     /\ UNCHANGED <<now, sessions, tokens, nextJti, nextKey, pendingLogin,
                    revokedEver>>

\* the requests and the account administration that decide who a caller is
NextAccess ==
  \/ Deliver
  \/ Idle /\ Kept /\ \E u \in Usernames, p \in BodyPasswords : LoginBegin(u, p)
  \/ Idle /\ Kept /\ LoginFinish
  \/ Idle /\ Kept /\ \E req \in Requests : Logout(req)
  \/ Idle /\ Kept /\ \E req \in Requests : Refresh(req)
  \/ Idle /\ Kept /\ \E req \in AdminRequests, u \in UserIds, a \in BOOLEAN :
                       UpdateUserRoute(req, u, a)
  \/ Idle /\ Kept /\ \E req \in AdminRequests, u \in UserIds : DeleteUserRoute(req, u)
  \/ Idle /\ \E req \in AdminRequests, u \in UserIds : GenerateApiKeyRoute(req, u)

\* ==================================================== request resolution
\* mutant of GetCurrentUser: resolving a token slides its session's expiry
GetCurrentUserSliding(req) ==
  LET user == authenticate(users, sessions, req, now)
      status == IF requireAuth(user) # 0 THEN requireAuth(user) ELSE 200
  IN /\ sessions' = {IF s.token_id = user.tokenId
                        THEN [s EXCEPT !.expires_at = toISOString(now + JWT_EXPIRY)]
                        ELSE s : s \in sessions}
     /\ resp' = Response("me", status, user, req, 0)
     /\ UNCHANGED <<now, users, tokens, nextJti, nextKey, pendingLogin,
                    revokedEver>>

\* GET /auth/me: authenticate, requireAuth, then getCurrentUser, which reads
\* the row of req.user
GetCurrentUser(req) ==
  LET user == authenticate(users, sessions, req, now)
      status == IF requireAuth(user) # 0 THEN requireAuth(user)
                ELSE IF getById(users, user.id) = NoUser THEN 404
                ELSE 200
  IN /\ resp' = Response("me", status, user, req, 0)
     /\ UNCHANGED <<now, users, sessions, tokens, nextJti, nextKey, pendingLogin,
                    revokedEver>>

\* requests resolved by API key or token as time passes
NextResolve ==
  \/ Deliver
  \/ Idle /\ Kept /\ Tick
  \/ Idle /\ Kept /\ \E u \in Usernames, p \in BodyPasswords : LoginBegin(u, p)
  \/ Idle /\ Kept /\ LoginFinish
  \/ Idle /\ Kept /\ \E req \in Requests : Logout(req)
  \/ Idle /\ Kept /\ \E req \in Requests : GetCurrentUser(req)
  \/ Idle /\ \E req \in AdminRequests, u \in UserIds : GenerateApiKeyRoute(req, u)

\* ==================================================== user administration
\* the password an admin sets with PUT /users/:id
NewPasswords == {"n3w"}
Flags == {"true", "false", "undefined"}

\* PUT /users/:id with body { password } or { password, isAdmin }: the route
\* calls users.update without awaiting it, so it answers while update is
\* suspended at `await bcrypt.hash`, before its UPDATE has run
UpdatePasswordRoute(req, id, password, isAdmin) ==
  LET user == authenticate(users, sessions, req, now)
      target == getById(users, id)
      status == IF requireAdmin(user) # 0 THEN requireAdmin(user)
                ELSE IF target = NoUser THEN 404
                ELSE IF target.is_admin = 1 /\ isAdmin = "false"
                        /\ adminCount(users) <= 1
                  THEN 400
                ELSE 200
  IN /\ pendingUpdate = NoUpdate
     /\ IF status = 200
          THEN pendingUpdate' = [id |-> id, password |-> password,
                                 isAdmin |-> isAdmin]
          ELSE UNCHANGED pendingUpdate
     /\ resp' = Response("updatePassword", status, user, NoRequest, 0)
     /\ UNCHANGED <<now, users, sessions, tokens, nextJti, nextKey, pendingLogin,
                    revokedEver, issuedAs, logLines>>

\* users.update after the await: the UPDATE of password_hash and, if given,
\* is_admin; it changes nothing when the row is gone
UpdateFinish ==
  /\ pendingUpdate # NoUpdate
  /\ LET id == pendingUpdate.id
         hashed == [users EXCEPT ![id].password_hash =
                                   bcryptHash(pendingUpdate.password)]
     IN users' = IF getById(users, id) = NoUser THEN users
                 ELSE IF pendingUpdate.isAdmin = "undefined" THEN hashed
                 ELSE update(hashed, id, pendingUpdate.isAdmin = "true")
  /\ pendingUpdate' = NoUpdate
  /\ resp' = NoResp
  /\ UNCHANGED <<now, sessions, tokens, nextJti, nextKey, pendingLogin,
                 revokedEver, issuedAs, logLines>>

\* logins and the admin's PUT and DELETE of accounts, interleaved at the awaits
NextUsers ==
  \/ Deliver
  \/ Idle /\ Kept /\ \E u \in Usernames, p \in BodyPasswords \cup NewPasswords :
                       LoginBegin(u, p)
  \/ Idle /\ Kept /\ LoginFinish
  \/ Idle /\ Kept /\ \E req \in AdminRequests, u \in UserIds, a \in BOOLEAN :
                       UpdateUserRoute(req, u, a)
  \/ Idle /\ \E req \in AdminRequests, u \in UserIds, p \in NewPasswords, a \in Flags :
              UpdatePasswordRoute(req, u, p, a)
  \/ Idle /\ UpdateFinish
  \/ Idle /\ Kept /\ \E req \in AdminRequests, u \in UserIds : DeleteUserRoute(req, u)

\* ================================================================ API keys
\* the API keys the self-service routes may generate, in order
MaxKeys == 2

\* mutant of revokeApiKey: only the last four characters are cleared
revokeApiKeyKeepsDigest(U, id) == [U EXCEPT ![id].api_key_last_four = NoKey]

\* users.revokeApiKey(id)
revokeApiKey(U, id) ==
  [U EXCEPT ![id].api_key = NoKey, ![id].api_key_last_four = NoKey]

\* POST /account/api-key of the single-file routes module (behind requireAuth of
\* the single-file auth module): generate or regenerate the caller's key
AccountApiKeyRoute(req) ==
  LET user == authenticateMonolith(users, sessions, req, now)
      row == getById(users, user.id)
      status == IF requireAuth(user) # 0 THEN requireAuth(user)
                ELSE IF row = NoUser THEN 404
                ELSE 200
  IN /\ nextKey <= MaxKeys
     /\ IF status = 200
          THEN /\ users' = generateApiKey(users, user.id, nextKey)
               /\ nextKey' = nextKey + 1
               /\ issuedAs' = [k \in DOMAIN issuedAs |->
                                 IF k = nextKey
                                   THEN (IF row.is_admin = 1 THEN "admin" ELSE "member")
                                   ELSE issuedAs[k]]
               /\ logLines' = logLines \cup
                    {LogLine("console", plaintext(nextKey)),
                     LogLine("console", lastFour(nextKey)),
                     LogLine("audit", lastFour(nextKey))}
          ELSE UNCHANGED <<users, nextKey, issuedAs, logLines>>
     /\ resp' = Response("accountApiKey", status, user, NoRequest, 0)
     /\ UNCHANGED <<now, sessions, tokens, nextJti, pendingLogin, pendingUpdate,
                    revokedEver>>

\* DELETE /account/api-key of the single-file routes module
RevokeAccountApiKeyRoute(req) ==
  LET user == authenticateMonolith(users, sessions, req, now)
      row == getById(users, user.id)
      status == IF requireAuth(user) # 0 THEN requireAuth(user)
                ELSE IF row = NoUser THEN 404
                ELSE 200
  IN /\ IF status = 200
          THEN /\ users' = revokeApiKey(users, user.id)
               /\ logLines' =
                    IF row.api_key_last_four = NoKey THEN logLines
                    ELSE logLines \cup
                           {LogLine("console", row.api_key_last_four),
                            LogLine("audit", row.api_key_last_four)}
          ELSE UNCHANGED <<users, logLines>>
     /\ resp' = Response("accountApiKeyRevoke", status, user, NoRequest, 0)
     /\ UNCHANGED <<now, sessions, tokens, nextJti, nextKey, pendingLogin,
                    pendingUpdate, revokedEver, issuedAs>>

\* API-key generation, regeneration and revocation by logged-in accounts and
\* by an admin
NextApiKeys ==
  \/ Deliver
  \/ Idle /\ Kept /\ \E u \in Usernames, p \in BodyPasswords : LoginBegin(u, p)
  \/ Idle /\ Kept /\ LoginFinish
  \/ Idle /\ \E req \in AdminRequests : AccountApiKeyRoute(req)
  \/ Idle /\ UNCHANGED issuedAs /\ \E req \in AdminRequests : RevokeAccountApiKeyRoute(req)
  \/ Idle /\ \E req \in AdminRequests, u \in UserIds : GenerateApiKeyRoute(req, u)

\* =================================================== notification channels
\* A config value, as JSON holds it: no such key, a plain string, or a string
\* of the form iv_hex:ciphertext_hex. The ciphertext is kept symbolically, by
\* the key, the IV and the plaintext it was made from.
\* A 32-byte key, by the way it was made: crypto.randomBytes(32) of the n-th
\* process, PBKDF2 of a configured secret, or the pad/truncate of a raw text
NoKeyBuf == [kind |-> "none", raw |-> "", n |-> 0]
randomBytes(n) == [kind |-> "random", raw |-> "", n |-> n]
pbkdf2Sync(raw) == [kind |-> "pbkdf2", raw |-> raw, n |-> 0]
padEnd(raw) == [kind |-> "pad", raw |-> raw, n |-> 0]

Absent == [kind |-> "absent", text |-> "", iv |-> 0, key |-> NoKeyBuf]
Text(str) == [kind |-> "text", text |-> str, iv |-> 0, key |-> NoKeyBuf]
Cipher(key, iv, str) == [kind |-> "enc", text |-> str, iv |-> iv, key |-> key]

\* JavaScript truthiness of a config value: a present, non-empty string
Truthy(v) == v.kind # "absent" /\ v # Text("")

\* process.env.ENCRYPTION_KEY: not set, the placeholder, or a secret of the
\* operator
DEFAULT_KEY == "change-this-key-in-production-32b"
Unset == ""
Envs == {Unset, DEFAULT_KEY, "s3cret"}

\* the key file: absent, or the hex text of a key
toHex(key) == [hex |-> key]
fromHex(text) == text.hex
NoFile == [exists |-> FALSE, text |-> toHex(NoKeyBuf)]
KeyFileOf(key) == [exists |-> TRUE, text |-> toHex(key)]

\* resolveEncryptionKey with the key file tried before the configured secret
resolveEncryptionKeyFileFirst(env, file, fresh) ==
  IF file.exists
    THEN [key |-> fromHex(file.text), file |-> file]
  ELSE IF env # Unset /\ env # DEFAULT_KEY
    THEN [key |-> pbkdf2Sync(env), file |-> file]
  ELSE [key |-> fresh, file |-> KeyFileOf(fresh)]

\* resolveEncryptionKey without the write of the key file
resolveEncryptionKeyNoPersist(env, file, fresh) ==
  IF env # Unset /\ env # DEFAULT_KEY
    THEN [key |-> pbkdf2Sync(env), file |-> file]
  ELSE IF file.exists
    THEN [key |-> fromHex(file.text), file |-> file]
  ELSE [key |-> fresh, file |-> file]

\* resolveEncryptionKey(): the key of the process and the key file it leaves,
\* where fresh is what crypto.randomBytes(32) yields. The file system is taken
\* to work, as the database is: the two catch branches, which run only when
\* a file operation throws, are not taken.
resolveEncryptionKey(env, file, fresh) ==
  IF env # Unset /\ env # DEFAULT_KEY
    THEN [key |-> pbkdf2Sync(env), file |-> file]
  ELSE IF file.exists
    THEN [key |-> fromHex(file.text), file |-> file]
  ELSE [key |-> fresh, file |-> KeyFileOf(fresh)]

\* the pad/truncate key of the old scheme
getLegacyKey == padEnd(IF envKey # Unset THEN envKey ELSE DEFAULT_KEY)

\* encrypt with the same IV at every call
encryptFixedIv(v, iv) ==
  IF ~Truthy(v) THEN Text("") ELSE Cipher(ENCRYPTION_KEY_BUF, 0, v.text)

\* encryption.encrypt(text) with the IV crypto.randomBytes(16) yields
encrypt(v, iv) ==
  IF ~Truthy(v) THEN Text("") ELSE Cipher(ENCRYPTION_KEY_BUF, iv, v.text)

\* an exception, where a string was to be returned
Thrown == [kind |-> "throw", text |-> "", iv |-> 0, key |-> NoKeyBuf]

\* one decryption attempt: split(':'), createDecipheriv, update and final.
\* It throws unless the text is iv:ciphertext made under the same key (a
\* text with no ':' gives no ciphertext, a wrong key fails the padding check)
createDecipheriv(key, v) ==
  IF v.kind = "enc" /\ v.key = key THEN Text(v.text) ELSE Thrown

\* mutant of decrypt: the inner catch rethrows
decryptRethrow(v) ==
  IF ~Truthy(v) THEN Text("")
  ELSE IF createDecipheriv(ENCRYPTION_KEY_BUF, v) # Thrown
    THEN createDecipheriv(ENCRYPTION_KEY_BUF, v)
  ELSE createDecipheriv(getLegacyKey, v)

\* encryption.decrypt(encryptedText): the current key, then in the catch the
\* legacy key, then in the inner catch ''
decrypt(v) ==
  IF ~Truthy(v) THEN Text("")
  ELSE IF createDecipheriv(ENCRYPTION_KEY_BUF, v) # Thrown
    THEN createDecipheriv(ENCRYPTION_KEY_BUF, v)
  ELSE IF createDecipheriv(getLegacyKey, v) # Thrown
    THEN createDecipheriv(getLegacyKey, v)
  ELSE Text("")

ChannelTypes == {"email", "teams"}
Fields == {"smtpPassword", "smtpServer", "webhookUrl"}
FieldsOf(channelType) ==
  IF channelType = "email" THEN {"smtpPassword", "smtpServer"} ELSE {"webhookUrl"}
SENSITIVE_FIELDS(channelType) ==
  IF channelType = "email" THEN {"smtpPassword"} ELSE {}

Secrets == {"p1", "p2"}
Plain == {"a", "b"}

NoConfig == [f \in Fields |-> Absent]
NoRow == [present |-> FALSE, enabled |-> 0, config |-> NoConfig]

\* parseConfig(channelType, configStr, decrypt)
parseConfig(channelType, config, decryptIt) ==
  [f \in Fields |->
     IF f \in SENSITIVE_FIELDS(channelType) /\ Truthy(config[f])
       THEN (IF decryptIt THEN decrypt(config[f]) ELSE Text("masked"))
       ELSE config[f]]

\* notificationChannels.getDecrypted(channelType): the row's config, or {} for
\* save when there is no row
getDecrypted(C, channelType) ==
  IF C[channelType].present
    THEN parseConfig(channelType, C[channelType].config, TRUE)
    ELSE NoConfig

\* the merge loop of notificationChannels.save over Object.entries(config)
mergeConfig(channelType, existingConfig, config, iv) ==
  [f \in Fields |->
     IF config[f].kind = "absent" THEN existingConfig[f]
     ELSE IF f \in SENSITIVE_FIELDS(channelType)
       THEN (IF Truthy(config[f]) THEN encrypt(config[f], iv) ELSE existingConfig[f])
     ELSE config[f]]

\* notificationChannels.save(channelType, enabled, config)
save(C, channelType, enabled, config, iv) ==
  [C EXCEPT ![channelType] =
     [present |-> TRUE, enabled |-> IF enabled THEN 1 ELSE 0,
      config |-> mergeConfig(channelType, getDecrypted(C, channelType), config, iv)]]

\* the request bodies of PUT /notifications/channels/:type
SaveInputs(channelType) ==
  {cfg \in [Fields -> {Absent, Text("")} \cup {Text(x) : x \in Secrets \cup Plain}] :
     \A f \in Fields :
       /\ f \notin FieldsOf(channelType) => cfg[f] = Absent
       /\ f \in SENSITIVE_FIELDS(channelType) => cfg[f].text \notin Plain
       /\ f \notin SENSITIVE_FIELDS(channelType) => cfg[f].text \notin Secrets}

NoSave == [channelType |-> "", config |-> NoConfig, before |-> NoConfig]

MaxIv == 3

InitChan ==
  /\ channels = [t \in ChannelTypes |-> NoRow]
  /\ nextIv = 1
  /\ lastSave = NoSave
  /\ supplied = [t \in ChannelTypes |-> [f \in Fields |-> ""]]

\* PUT /notifications/channels/:type
Save(channelType, enabled, config) ==
  /\ lastSave = NoSave
  /\ nextIv <= MaxIv
  /\ channels' = save(channels, channelType, enabled, config, nextIv)
  /\ nextIv' = IF \E f \in SENSITIVE_FIELDS(channelType) : Truthy(config[f])
                 THEN nextIv + 1 ELSE nextIv
  /\ lastSave' = [channelType |-> channelType, config |-> config,
                  before |-> channels[channelType].config]
  /\ supplied' = [supplied EXCEPT ![channelType] =
       [f \in Fields |->
          IF f \in SENSITIVE_FIELDS(channelType) /\ Truthy(config[f])
            THEN config[f].text ELSE @[f]]]
  /\ UNCHANGED <<authVars, keyVars, hookVars>>

\* DELETE /notifications/channels/:type
DeleteChannel(channelType) ==
  /\ lastSave = NoSave
  /\ channels[channelType].present
  /\ channels' = [channels EXCEPT ![channelType] = NoRow]
  /\ supplied' = [supplied EXCEPT ![channelType] = [f \in Fields |-> ""]]
  /\ UNCHANGED <<nextIv, lastSave>>
  /\ UNCHANGED <<authVars, keyVars, hookVars>>

\* the save request is over
SaveDone ==
  /\ lastSave # NoSave
  /\ lastSave' = NoSave
  /\ UNCHANGED <<channels, nextIv, supplied>>
  /\ UNCHANGED <<authVars, keyVars, hookVars>>

\* ----------------------------------------------------------- the cipher
\* the processes the installation runs one after another
MaxStarts == 3

\* no decrypt call yet
NoOpen == [called |-> FALSE, input |-> Absent, output |-> Absent]

\* what decrypt may be handed: nothing, the empty string, a text with no ':'
\* (a secret stored as it was typed), a value the first encrypt calls
\* returned, and values the old scheme encrypted under its pad/truncate key
DecryptInputs ==
  {Absent, Text(""), Text("p1")}
    \cup {vault[i].cipher : i \in DOMAIN vault \cap {1, 2}}
    \cup {Cipher(padEnd(raw), 0, "p1") : raw \in Envs \ {Unset}}

\* the first start of the process, with no key file yet
InitKey(env) ==
  LET r == resolveEncryptionKey(env, NoFile, randomBytes(1))
  IN /\ envKey = env
     /\ keyFile = r.file
     /\ ENCRYPTION_KEY_BUF = r.key
     /\ pid = 1
     /\ vault = <<>>
     /\ opened = NoOpen

\* the process ends and the next one starts: const ENCRYPTION_KEY_BUF =
\* resolveEncryptionKey() at module load
StartProcess(env) ==
  LET r == resolveEncryptionKey(env, keyFile, randomBytes(pid + 1))
  IN /\ pid < MaxStarts
     /\ lastSave = NoSave
     /\ pid' = pid + 1
     /\ envKey' = env
     /\ keyFile' = r.file
     /\ ENCRYPTION_KEY_BUF' = r.key
     /\ opened' = NoOpen
     /\ UNCHANGED <<vault, authVars, chanVars, hookVars>>

\* a call encryption.encrypt(text), its result kept by the caller
Encrypt(text) ==
  /\ Len(vault) < MaxIv
  /\ lastSave = NoSave
  /\ vault' = Append(vault, [plain |-> text, pid |-> pid, env |-> envKey,
                             cipher |-> encrypt(Text(text), nextIv)])
  /\ nextIv' = IF Truthy(Text(text)) THEN nextIv + 1 ELSE nextIv
  /\ UNCHANGED <<envKey, keyFile, ENCRYPTION_KEY_BUF, pid, opened>>
  /\ UNCHANGED <<channels, lastSave, supplied, authVars, hookVars>>

\* a call encryption.decrypt(encryptedText)
Decrypt(v) ==
  /\ lastSave = NoSave
  /\ opened' = [called |-> TRUE, input |-> v, output |-> decrypt(v)]
  /\ UNCHANGED <<envKey, keyFile, ENCRYPTION_KEY_BUF, pid, vault>>
  /\ UNCHANGED <<authVars, chanVars, hookVars>>

NextCipher ==
  \/ \E env \in Envs : StartProcess(env)
  \/ \E text \in Secrets \cup {""} : Encrypt(text)

\* decrypt calls on stored values, old and new, over process restarts
NextDecrypt ==
  \/ \E env \in Envs : StartProcess(env)
  \/ Encrypt("p1")
  \/ \E v \in DecryptInputs : Decrypt(v)

NextChannels ==
  \/ \E t \in ChannelTypes, e \in BOOLEAN : \E cfg \in SaveInputs(t) : Save(t, e, cfg)
  \/ \E t \in ChannelTypes : DeleteChannel(t)
  \/ SaveDone


\* ========================================================== webhook guard
\* Texts are sequences of one-character strings.
HexDigits == <<"0", "1", "2", "3", "4", "5", "6", "7", "8", "9",
               "a", "b", "c", "d", "e", "f">>

\* the digits of n in the given base, without leading zeros
RECURSIVE NumText(_, _)
NumText(n, base) ==
  IF n < base THEN <<HexDigits[n + 1]>>
  ELSE NumText(n \div base, base) \o <<HexDigits[(n % base) + 1]>>

RECURSIVE Join(_, _)
Join(parts, sep) ==
  IF parts = <<>> THEN <<>>
  ELSE IF Len(parts) = 1 THEN parts[1]
  ELSE parts[1] \o sep \o Join(Tail(parts), sep)

\* an address as the resolver holds it: 4 octets or 8 hextets
NoAddress == [family |-> 0, parts |-> <<>>]
IPv4(a, b, c, d) == [family |-> 4, parts |-> <<a, b, c, d>>]
IPv6(h1, h2, h7, h8) == [family |-> 6, parts |-> <<h1, h2, 0, 0, 0, 0, h7, h8>>]

\* the length of the run of zero hextets that starts at position i
RECURSIVE ZeroRun(_, _)
ZeroRun(parts, i) ==
  IF i > Len(parts) \/ parts[i] # 0 THEN 0 ELSE 1 + ZeroRun(parts, i + 1)

\* the address text dns.lookup hands back: dotted decimal, or lowercase hex
\* groups with the first longest run of two or more zero groups as "::"
addressText(addr) ==
  IF addr.family = 4
    THEN Join([i \in 1..4 |-> NumText(addr.parts[i], 10)], <<".">>)
  ELSE
    LET h == addr.parts
        longest == CHOOSE i \in 1..8 :
                     /\ \A j \in 1..8 : ZeroRun(h, j) <= ZeroRun(h, i)
                     /\ \A j \in 1..(i - 1) : ZeroRun(h, j) < ZeroRun(h, i)
        run == ZeroRun(h, longest)
        group(i) == NumText(h[i], 16)
    IN IF run < 2
         THEN Join([i \in 1..8 |-> group(i)], <<":">>)
       ELSE Join([i \in 1..(longest - 1) |-> group(i)], <<":">>)
              \o <<":", ":">>
              \o Join([i \in 1..(8 - (longest + run - 1)) |->
                         group(longest + run - 1 + i)], <<":">>)

\* String.prototype.split on a one-character separator
RECURSIVE split(_, _)
split(text, sep) ==
  IF \A i \in 1..Len(text) : text[i] # sep THEN <<text>>
  ELSE LET k == CHOOSE i \in 1..Len(text) :
                  text[i] = sep /\ \A j \in 1..(i - 1) : text[j] # sep
       IN <<SubSeq(text, 1, k - 1)>> \o split(SubSeq(text, k + 1, Len(text)), sep)

\* Number(str) for the strings an address text splits into: the decimal value,
\* 0 for the empty string, NaN for anything else
NaN == -1
DigitValue(c) == CHOOSE d \in 0..9 : HexDigits[d + 1] = c
RECURSIVE Number(_)
Number(str) ==
  IF str = <<>> THEN 0
  ELSE IF \E i \in 1..Len(str) : \A d \in 1..10 : HexDigits[d] # str[i] THEN NaN
  ELSE IF Len(str) = 1 THEN DigitValue(str[1])
  ELSE 10 * Number(SubSeq(str, 1, Len(str) - 1)) + DigitValue(str[Len(str)])

startsWith(text, prefix) ==
  Len(text) >= Len(prefix) /\ SubSeq(text, 1, Len(prefix)) = prefix

isPrivateIP(ip) ==
  LET strs == split(ip, ".")
      parts == [i \in 1..Len(strs) |-> Number(strs[i])]
  IN \/ /\ Len(parts) = 4
        /\ \/ parts[1] = 10
           \/ parts[1] = 172 /\ parts[2] >= 16 /\ parts[2] <= 31
           \/ parts[1] = 192 /\ parts[2] = 168
           \/ parts[1] = 127
           \/ parts[1] = 169 /\ parts[2] = 254
           \/ parts[1] = 0
     \/ ip = <<":", ":", "1">>
     \/ startsWith(ip, <<"f", "c">>)
     \/ startsWith(ip, <<"f", "d">>)
     \/ startsWith(ip, <<"f", "e", "8", "0">>)

\* ---- new URL(url): the scheme up to the first ':', lowercased; a special
\* scheme (http, https, ftp) needs a non-empty host after its slashes
Upper == <<"H", "T", "P", "S", "F">>
Lower == <<"h", "t", "p", "s", "f">>
toLowerCase(c) ==
  IF \E i \in 1..Len(Upper) : Upper[i] = c
    THEN Lower[CHOOSE i \in 1..Len(Upper) : Upper[i] = c]
    ELSE c

InvalidURL == [protocol |-> <<>>, hostname |-> <<>>]

RECURSIVE dropSlashes(_)
dropSlashes(text) ==
  IF text # <<>> /\ Head(text) = "/" THEN dropSlashes(Tail(text)) ELSE text

URL(url) ==
  IF \A i \in 1..Len(url) : url[i] # ":" THEN InvalidURL
  ELSE
    LET k == CHOOSE i \in 1..Len(url) :
               url[i] = ":" /\ \A j \in 1..(i - 1) : url[j] # ":"
        scheme == [i \in 1..(k - 1) |-> toLowerCase(url[i])]
        rest == SubSeq(url, k + 1, Len(url))
        special == scheme \in {<<"h", "t", "t", "p">>, <<"h", "t", "t", "p", "s">>,
                               <<"f", "t", "p">>}
        authority == dropSlashes(rest)
        host == split(authority, "/")[1]
    IN IF scheme = <<>> \/ url[1] = "." \/ \E i \in 1..(k - 1) : url[i] = "/"
         THEN InvalidURL
       ELSE IF special /\ host = <<>> THEN InvalidURL
       ELSE [protocol |-> scheme \o <<":">>,
             hostname |-> IF special THEN host ELSE <<>>]

HTTPS == <<"h", "t", "t", "p", "s", ":">>
HTTP == <<"h", "t", "t", "p", ":">>

\* mutant of isDev: the relaxed mode is on whatever NODE_ENV says
isDevAlways(env) == TRUE

\* const isDev = process.env.NODE_ENV === 'development'
isDev(env) == env = "development"

\* the answer of dns.promises.lookup: an address, or a rejection
DnsFailure == [resolved |-> FALSE, address |-> NoAddress]
DnsAnswer(addr) == [resolved |-> TRUE, address |-> addr]

\* validateWebhookUrl(url), given NODE_ENV and what the lookup will answer;
\* lookedUp tells whether dns.promises.lookup was called
Checked(valid, reason, lookedUp) ==
  [valid |-> valid, reason |-> reason, lookedUp |-> lookedUp]

\* mutant of validateWebhookUrl: a lookup that fails lets the URL through
validateWebhookUrlFailOpen(url, env, answer) ==
  LET parsed == URL(url)
  IN IF parsed = InvalidURL THEN Checked(FALSE, "Invalid URL format", FALSE)
     ELSE IF ~isDev(env) /\ parsed.protocol # HTTPS
       THEN Checked(FALSE, "Webhook URLs must use HTTPS", FALSE)
     ELSE IF parsed.protocol # HTTPS /\ parsed.protocol # HTTP
       THEN Checked(FALSE, "Invalid URL protocol", FALSE)
     ELSE IF ~answer.resolved
       THEN Checked(TRUE, "", TRUE)
     ELSE IF isPrivateIP(addressText(answer.address))
       THEN Checked(FALSE, "Webhook URLs cannot target private or reserved IP addresses", TRUE)
     ELSE Checked(TRUE, "", TRUE)

validateWebhookUrl(url, env, answer) ==
  LET parsed == URL(url)
  IN IF parsed = InvalidURL THEN Checked(FALSE, "Invalid URL format", FALSE)
     ELSE IF ~isDev(env) /\ parsed.protocol # HTTPS
       THEN Checked(FALSE, "Webhook URLs must use HTTPS", FALSE)
     ELSE IF parsed.protocol # HTTPS /\ parsed.protocol # HTTP
       THEN Checked(FALSE, "Invalid URL protocol", FALSE)
     ELSE IF ~answer.resolved
       THEN Checked(FALSE, "Cannot resolve hostname", TRUE)
     ELSE IF isPrivateIP(addressText(answer.address))
       THEN Checked(FALSE, "Webhook URLs cannot target private or reserved IP addresses", TRUE)
     ELSE Checked(TRUE, "", TRUE)

\* no validateWebhookUrl call was made
Unchecked == Checked(FALSE, "unchecked", FALSE)

\* the webhook URLs a channel may be configured or tested with
Urls ==
  { <<"h", "t", "t", "p", "s", ":", "/", "/", "a", ".", "x", "/", "p">>,
    <<"H", "T", "T", "P", "S", ":", "/", "/", "a", ".", "x">>,
    <<"h", "t", "t", "p", ":", "/", "/", "a", ".", "x">>,
    <<"f", "t", "p", ":", "/", "/", "a", ".", "x">>,
    <<"x", ":", "a">>,
    <<"h", "t", "t", "p", "s", ":", "/", "/">>,
    <<"a", ".", "x", "/", "p">>,
    <<"/", "/", "a", ".", "x">> }

\* what a hostname may resolve to
Addresses ==
  { IPv4(10, 1, 2, 3), IPv4(172, 16, 0, 1), IPv4(172, 31, 255, 254),
    IPv4(172, 32, 0, 1), IPv4(192, 168, 1, 1), IPv4(127, 0, 0, 1),
    IPv4(169, 254, 169, 254), IPv4(0, 0, 0, 0), IPv4(8, 8, 8, 8),
    IPv4(100, 10, 0, 1),
    IPv6(0, 0, 0, 1), IPv6(64512, 0, 0, 1), IPv6(64786, 13398, 0, 1),
    IPv6(65152, 0, 0, 1), IPv6(65168, 0, 0, 1), IPv6(65215, 0, 65535, 65535),
    IPv6(8193, 3512, 0, 1), IPv6(0, 0, 0, 0) }
DnsAnswers == {DnsFailure} \cup {DnsAnswer(a) : a \in Addresses}

\* the two notification route modules of the repository and their senders:
\* the senders of the guarded module call validateWebhookUrl before fetch
Routers == {"guarded", "unguarded"}
Senders == {"teams", "slack", "discord", "webhook"}
NodeEnvs == {"production", "development", "test"}

NoSend == [router |-> "", channelType |-> "", url |-> <<>>, answer |-> DnsFailure,
           check |-> Unchecked, success |-> FALSE]
NoFetch == [url |-> <<>>, answer |-> DnsFailure]

InitWebhook ==
  /\ nodeEnv = "production"
  /\ send = NoSend
  /\ fetched = NoFetch

\* sendTeams / sendSlack / sendDiscord / sendWebhook with config.webhookUrl =
\* url, reached from POST /notifications/channels/:type/test; answer is what
\* the resolver says during this request; the endpoint answers 2xx
sendTest(router, channelType, url, answer) ==
  LET urlCheck == IF router = "guarded"
                    THEN validateWebhookUrl(url, nodeEnv, answer) ELSE Unchecked
  IN IF router = "guarded" /\ ~urlCheck.valid
       THEN /\ send' = [router |-> router, channelType |-> channelType, url |-> url,
                        answer |-> answer, check |-> urlCheck, success |-> FALSE]
            /\ fetched' = NoFetch
     ELSE /\ send' = [router |-> router, channelType |-> channelType, url |-> url,
                      answer |-> answer, check |-> urlCheck,
                      success |-> answer.resolved]
          /\ fetched' = [url |-> url, answer |-> answer]

TestSend(router, channelType, url, answer) ==
  /\ send = NoSend
  /\ sendTest(router, channelType, url, answer)
  /\ UNCHANGED nodeEnv
  /\ UNCHANGED <<authVars, chanVars, keyVars>>

\* the test request has been answered
TestDone ==
  /\ send # NoSend
  /\ send' = NoSend
  /\ fetched' = NoFetch
  /\ UNCHANGED nodeEnv
  /\ UNCHANGED <<authVars, chanVars, keyVars>>

\* the process is started again with another NODE_ENV
Restart(env) ==
  /\ send = NoSend
  /\ env # nodeEnv
  /\ nodeEnv' = env
  /\ UNCHANGED <<send, fetched>>
  /\ UNCHANGED <<authVars, chanVars, keyVars>>

NextWebhook ==
  \/ \E r \in Routers, c \in Senders, u \in Urls, a \in DnsAnswers : TestSend(r, c, u, a)
  \/ TestDone
  \/ \E env \in NodeEnvs : Restart(env)

\* ========================================================= specifications
Init == InitAuth /\ InitChan /\ InitWebhook /\ InitKey(Unset)
InitCipher == InitAuth /\ InitChan /\ InitWebhook /\ \E env \in Envs : InitKey(env)

Spec == Init /\ [][Next]_vars
SpecAccess == Init /\ [][NextAccess]_vars
SpecResolve == Init /\ [][NextResolve]_vars
SpecUsers == Init /\ [][NextUsers]_vars
SpecApiKeys == Init /\ [][NextApiKeys]_vars
SpecChannels == Init /\ [][NextChannels]_vars
SpecCipher == InitCipher /\ [][NextCipher]_vars
SpecDecrypt == InitCipher /\ [][NextDecrypt]_vars
SpecWebhook == Init /\ [][NextWebhook]_vars

\* ------------------------------------------------------------------ claims
\* a session row that is usable in the spec's sense: present, not revoked,
\* and the current time before its expiresAt
SessionUsable(jti) ==
  \E s \in sessions :
    s.token_id = jti /\ s.revoked = 0 /\ now < InstantOf(s.expires_at)

\* C1: once sessions.revoke (or revokeAllForUser) has been applied to a
\* tokenId, sessions.isValid(tokenId) is false in every later state, whatever
\* logins, refreshes, logouts, sweeps and deletions follow.
C1_RevokedNeverValid == \A t \in revokedEver : ~isValid(sessions, t, now)

\* a revoked session that has not expired and is still stored, after a later
\* token was issued
C1_Witness ==
  \E s \in sessions :
    /\ s.token_id \in revokedEver
    /\ s.revoked = 1
    /\ now < InstantOf(s.expires_at)
    /\ nextJti > s.token_id + 1

\* C2: a session whose expiresAt is in the past is never reported usable by
\* sessions.isValid, revoked or not.
C2_ExpiredNeverValid ==
  \A s \in sessions :
    InstantOf(s.expires_at) < now => ~isValid(sessions, s.token_id, now)

\* C3: whenever a request can arrive (no handler is running), for every
\* request, authenticate attaches a 'jwt' identity only when the token's
\* session row is present, not revoked and not expired; a correctly signed
\* token whose session is revoked, expired or missing leaves the caller
\* anonymous when no API key of the request matches an account.
C3_JwtOnlyWithUsableSession ==
  resp = NoResp =>
    \A req \in Requests :
      LET user == authenticate(users, sessions, req, now)
          token == extractToken(req)
      IN /\ user.authMethod = "jwt" =>
              /\ token.sig = "good"
              /\ user.tokenId = token.jti
              /\ SessionUsable(token.jti)
         /\ ( /\ token.sig = "good"
              /\ ~SessionUsable(token.jti)
              /\ (req.apiKey = 0 \/ getByApiKey(users, req.apiKey) = NoUser) )
            => user = Anonymous

\* a request can arrive, one signed, unexpired token has a usable session and
\* resolves to its account, and another signed, unexpired token, whose
\* session is revoked or gone, leaves its caller anonymous
C3_Witness ==
  /\ resp = NoResp
  /\ \E req \in Requests :
       authenticate(users, sessions, req, now).authMethod = "jwt"
  /\ \E req \in Requests :
       /\ req.apiKey = 0
       /\ jwtVerify(extractToken(req), now)
       /\ ~SessionUsable(extractToken(req).jti)
       /\ authenticate(users, sessions, req, now) = Anonymous

\* C4: after POST /auth/logout has responded to a request whose token was
\* valid, that token no longer authenticates (its session is revoked),
\* whatever other credentials the request carried.
C4_LogoutRevokes ==
  (resp.op = "logout" /\ resp.token.sig = "good") =>
     verifyToken(sessions, resp.token, now) = NoToken

\* C5: after POST /auth/refresh succeeded for a request authenticated by
\* session token T, the session of T is revoked and not valid, and a new
\* session of the same account is stored and usable.
C5_RefreshRotates ==
  (resp.op = "refresh" /\ resp.status = 200 /\ resp.user.authMethod = "jwt") =>
     /\ resp.user.tokenId \in revokedEver
     /\ \E s \in sessions : s.token_id = resp.user.tokenId /\ s.revoked = 1
     /\ ~isValid(sessions, resp.user.tokenId, now)
     /\ resp.issued # resp.user.tokenId
     /\ \E s \in sessions :
          /\ s.token_id = resp.issued
          /\ s.user_id = resp.user.id
          /\ SessionUsable(resp.issued)
          /\ isValid(sessions, resp.issued, now)
     /\ \E tk \in tokens :
          /\ tk.jti = resp.issued
          /\ tk.sub = resp.user.id
          /\ verifyToken(sessions, tk, now) = tk

\* a refresh authenticated by a session token has just answered 200
C5_Witness ==
  resp.op = "refresh" /\ resp.status = 200 /\ resp.user.authMethod = "jwt"

\* C6: a save in which a sensitive field is empty or absent leaves the stored
\* encrypted value of that field unchanged; a non-empty value replaces it with
\* a fresh encryption of that value; a non-sensitive field of the update
\* overwrites the stored one.
C6_EmptySecretPreserved ==
  lastSave # NoSave =>
    \A f \in FieldsOf(lastSave.channelType) :
      LET stored == channels[lastSave.channelType].config[f]
          given == lastSave.config[f]
      IN IF f \in SENSITIVE_FIELDS(lastSave.channelType)
           THEN IF Truthy(given)
                  THEN /\ stored.kind = "enc"
                       /\ stored.text = given.text
                       /\ stored.iv = nextIv - 1
                  ELSE stored = lastSave.before[f]
         ELSE given.kind # "absent" => stored = given

\* C7: no plaintext secret at rest: every sensitive field of every stored
\* config is absent, empty or in encrypted form, and getDecrypted returns the
\* most recently supplied non-empty value.
C7_NoPlaintextAtRest ==
  \A t \in ChannelTypes : \A f \in SENSITIVE_FIELDS(t) :
    channels[t].present =>
      /\ channels[t].config[f].kind \in {"absent", "enc"}
           \/ channels[t].config[f] = Text("")
      /\ supplied[t][f] # "" => getDecrypted(channels, t)[f] = Text(supplied[t][f])

\* C8: every outbound fetch of a test-send follows, in the same request, a
\* validateWebhookUrl check of the same URL that returned valid.
C8_FetchOnlyAfterValidCheck ==
  fetched # NoFetch =>
    /\ send.url = fetched.url
    /\ send.check # Unchecked
    /\ send.check.valid

\* the address ranges the guard is to reject
Reserved(addr) ==
  LET p == addr.parts
  IN IF addr.family = 4
       THEN \/ p[1] = 10
            \/ p[1] = 172 /\ p[2] \div 16 = 1
            \/ p[1] = 192 /\ p[2] = 168
            \/ p[1] = 127
            \/ p[1] = 169 /\ p[2] = 254
            \/ p[1] = 0
     ELSE \/ p = <<0, 0, 0, 0, 0, 0, 0, 1>>
          \/ p[1] \div 512 = 64512 \div 512
          \/ p[1] \div 64 = 65152 \div 64

\* C9: validateWebhookUrl rejects every URL whose hostname resolves to an
\* address of 10/8, 172.16/12, 192.168/16, 127/8, 169.254/16, 0/8, ::1,
\* fc00::/7 or fe80::/10.
C9_ReservedRejected ==
  ( /\ send.router = "guarded"
    /\ send.check.lookedUp
    /\ send.answer.resolved
    /\ Reserved(send.answer.address) ) => ~send.check.valid

\* C10: the scheme policy of validateWebhookUrl, for the check a guarded
\* sender has just made: a malformed URL, a scheme other than https and http,
\* and http outside development are rejected without a DNS lookup; https, and
\* http in development, go on to the lookup and are valid exactly when the
\* name resolves to an address isPrivateIP lets through.
C10_SchemePolicy ==
  (send # NoSend /\ send.router = "guarded") =>
    LET parsed == URL(send.url)
        accepted == \/ parsed.protocol = HTTPS
                    \/ parsed.protocol = HTTP /\ nodeEnv = "development"
    IN IF parsed # InvalidURL /\ accepted
         THEN /\ send.check.lookedUp
              /\ send.check.valid =
                   ( /\ send.answer.resolved
                     /\ ~isPrivateIP(addressText(send.answer.address)) )
         ELSE ~send.check.valid /\ ~send.check.lookedUp /\ fetched = NoFetch

\* a guarded sender has just accepted an http URL in development mode and
\* fetched it
C10_Witness ==
  /\ send.router = "guarded"
  /\ nodeEnv = "development"
  /\ URL(send.url).protocol = HTTP
  /\ send.check.valid
  /\ fetched.url = send.url

\* C11: when the lookup of the webhook hostname fails, validateWebhookUrl
\* returns valid = false with the one lookup it made, and the sender that
\* called it makes no fetch.
C11_DnsFailureRejects ==
  ( /\ send.router = "guarded"
    /\ send.check.lookedUp
    /\ ~send.answer.resolved ) =>
      /\ ~send.check.valid
      /\ send.check.reason = "Cannot resolve hostname"
      /\ ~send.success
      /\ fetched = NoFetch

\* a guarded sender has just been refused because the name of an https URL
\* did not resolve
C11_Witness ==
  /\ send.router = "guarded"
  /\ URL(send.url).protocol = HTTPS
  /\ send.check.lookedUp
  /\ ~send.answer.resolved
  /\ ~send.check.valid
  /\ fetched = NoFetch

\* the identity a token-resolved request gets carries the account's current
\* privilege, and the account exists
FreshIdentity(user) ==
  user.authMethod = "jwt" =>
    /\ getById(users, user.id) # NoUser
    /\ user.isAdmin = (getById(users, user.id).is_admin = 1)
    /\ requireAdmin(user) = 0 => getById(users, user.id).is_admin = 1

\* C12: bearer-token resolution uses the account's current privilege, not the
\* claim embedded in the token: whenever a request can arrive, for every
\* request without an API key, the identity either auth module resolves from
\* the token has the stored is_admin of an existing account, so requireAdmin
\* rejects a token issued before is_admin was cleared.
C12_TokenUsesCurrentPrivilege ==
  resp = NoResp =>
    \A req \in Requests :
      req.apiKey = 0 =>
        /\ FreshIdentity(authenticate(users, sessions, req, now))
        /\ FreshIdentity(authenticateMonolith(users, sessions, req, now))

\* C13: API-key authentication reflects the account's current privilege:
\* whenever a request can arrive, for every request whose API key matches an
\* account, the identity either auth module resolves has isAdmin equal to the
\* is_admin stored now, whatever it was when the key was issued.
C13_ApiKeyUsesCurrentPrivilege ==
  resp = NoResp =>
    \A req \in Requests :
      LET keyUser == IF req.apiKey # 0 THEN getByApiKey(users, req.apiKey) ELSE NoUser
      IN keyUser # NoUser =>
           /\ authenticate(users, sessions, req, now).isAdmin
                = (getById(users, keyUser.id).is_admin = 1)
           /\ authenticateMonolith(users, sessions, req, now).isAdmin
                = (getById(users, keyUser.id).is_admin = 1)

\* a request can arrive with the key of an account whose is_admin flag has
\* changed since the key was issued
C13_Witness ==
  /\ resp = NoResp
  /\ \E k \in ApiKeys :
       LET keyUser == getByApiKey(users, k)
       IN /\ keyUser # NoUser
          /\ issuedAs[k] = (IF keyUser.is_admin = 1 THEN "member" ELSE "admin")

\* C14: fixed precedence, first match wins: whenever a request can arrive, a
\* request whose API key matches an account resolves to that account with
\* authMethod 'api_key' and no tokenId, and to the same identity as the
\* request without its token, whatever token it carries.
C14_ApiKeyFirst ==
  resp = NoResp =>
    \A req \in Requests :
      LET keyUser == IF req.apiKey # 0 THEN getByApiKey(users, req.apiKey) ELSE NoUser
          user == authenticate(users, sessions, req, now)
          bare == [apiKey |-> req.apiKey, bearer |-> NoToken, cookie |-> NoToken]
      IN keyUser # NoUser =>
           /\ user.authMethod = "api_key"
           /\ user.id = keyUser.id
           /\ user.tokenId = 0
           /\ user = authenticate(users, sessions, bare, now)

\* a request can arrive with the API key of one account and a usable token of
\* another account
C14_Witness ==
  /\ resp = NoResp
  /\ \E req \in Requests :
       /\ req.apiKey # 0
       /\ getByApiKey(users, req.apiKey) # NoUser
       /\ verifyToken(sessions, extractToken(req), now) # NoToken
       /\ getById(users, extractToken(req).sub) # NoUser
       /\ extractToken(req).sub # getByApiKey(users, req.apiKey).id

\* the operations behind requireAuth and behind requireAdmin
AuthOps == {"refresh"}
AdminOps == {"updateUser", "deleteUser", "apiKey"}

\* C15: access levels: in every step in which a guarded handler answers, a
\* route behind requireAuth answers 401 exactly when authenticate resolved no
\* identity; a route behind requireAdmin answers 401 to an anonymous caller,
\* 403 to an authenticated non-privileged one and runs its handler only for a
\* privileged identity; a request answered 401 or 403 changes nothing.
C15_AccessLevels ==
  [][ (resp' # NoResp /\ resp'.op \in AuthOps \cup AdminOps) =>
        /\ resp'.op \in AuthOps =>
             (resp'.status = 401) = (resp'.user = Anonymous)
        /\ resp'.op \in AdminOps =>
             /\ resp'.user = Anonymous => resp'.status = 401
             /\ (resp'.user # Anonymous /\ ~resp'.user.isAdmin) => resp'.status = 403
             /\ resp'.status \notin {401, 403} => resp'.user.isAdmin
        /\ resp'.status \in {401, 403} =>
             UNCHANGED <<users, sessions, tokens, nextJti, nextKey, revokedEver,
                         issuedAs, logLines>>
    ]_vars

\* an authenticated caller without privilege has just been refused by an
\* admin route
C15_Witness ==
  /\ resp.op \in AdminOps
  /\ resp.status = 403
  /\ resp.user.authMethod = "jwt"
  /\ ~resp.user.isAdmin

\* C16: sessions.cleanup removes only sessions whose expiresAt is before the
\* current time: in every sweep step, every row the sweep deletes is expired,
\* and every row that is not yet expired, revoked or not, is left as it was.
C16_SweepOnlyExpired ==
  [][ Cleanup =>
        /\ sessions' \subseteq sessions
        /\ \A s \in sessions \ sessions' : InstantOf(s.expires_at) < now
        /\ \A s \in sessions : now <= InstantOf(s.expires_at) => s \in sessions'
    ]_vars

\* a sweep has deleted the session of a signed token of an existing account,
\* and a revoked session that is not yet expired is still stored
C16_Witness ==
  /\ \E tk \in tokens :
       /\ getById(users, tk.sub) # NoUser
       /\ \A s \in sessions : s.token_id # tk.jti
  /\ \E s \in sessions : s.revoked = 1 /\ now <= InstantOf(s.expires_at)

\* C17: after sessions.cleanup has run, no session row with expiresAt in the
\* past remains, whatever its revoked flag.
C17_SweepLeavesNoExpired ==
  [][ Cleanup => \A s \in sessions' : ~(InstantOf(s.expires_at) < now') ]_vars

\* C18: the plaintext API key is never persisted or logged: in every state,
\* the api_key column holds NULL or a SHA-256 digest, api_key_last_four holds
\* NULL or the last four characters, and no audit-log entry or console line
\* shows a plaintext key.
C18_NoPlaintextKey ==
  /\ \A id \in DOMAIN users :
       /\ users[id].api_key = NoKey \/ users[id].api_key[1] = "sha256"
       /\ users[id].api_key_last_four = NoKey
            \/ users[id].api_key_last_four[1] = "last4"
  /\ \A line \in logLines : line.material[1] # "plain"

\* an externally supplied secret is configured
External(env) == env # Unset /\ env # DEFAULT_KEY

LoginSucceeded ==
  /\ pendingLogin.user # NoUser
  /\ pendingLogin.password # ""
  /\ pendingLogin.user.password_hash = bcryptHash(pendingLogin.password)
  /\ resp'.issued # 0
  /\ \E s \in sessions' \ sessions :
       s.token_id = resp'.issued /\ s.user_id = pendingLogin.user.id
  /\ users'[pendingLogin.user.id].last_login = datetimeNow(now)
  /\ resp'.audit = "info"

\* what a login that did not answer 200 left alone
LoginChangedNothing ==
  /\ sessions' = sessions
  /\ users' = users
  /\ resp'.issued = 0
  /\ resp'.audit # "info"

\* C21 as stated: a login answers 200 only with an existing username and a
\* password that verifies, and then it creates the session, sets the cookie,
\* updates last_login and writes the success audit entry; every other login
\* answers 401, creates no session, sets no cookie and leaves last_login
\* unchanged.
C21_FailedLoginIs401 ==
  [][resp'.op = "login" =>
       IF resp'.status = 200 THEN LoginSucceeded
       ELSE resp'.status = 401 /\ LoginChangedNothing]_vars

\* C21, amended: as above, but a login that does not answer 200 answers 400
\* (a missing username or password), 401 (unknown username or wrong password,
\* with a warning in the audit log) or fails with 500 (the account was deleted
\* while the password was being verified); in each case no session is
\* created, no cookie is set and last_login is unchanged.
C21_FailedLoginChangesNothing ==
  [][resp'.op = "login" =>
       IF resp'.status = 200 THEN LoginSucceeded
       ELSE /\ resp'.status \in {400, 401, 500}
            /\ resp'.status = 401 => resp'.audit = "warn"
            /\ resp'.status = 500 => getById(users, pendingLogin.user.id) = NoUser
            /\ LoginChangedNothing]_vars

\* a login was refused with 401 after an earlier login of the same
\* installation had succeeded
C21_Witness ==
  /\ resp.op = "login" /\ resp.status = 401
  /\ sessions # {}
  /\ \E id \in DOMAIN users : users[id].last_login # Never

\* C22: a step sessions.revokeAllForUser(u) leaves no session of account u
\* usable (isValid is false for each of its token ids) and leaves the session
\* rows of every other account as they were.
C22_RevokeAllForUser ==
  [][\A u \in UserIds :
       RevokeAllForUser(u) =>
         /\ \A s \in sessions' :
              s.user_id = u => ~isValid(sessions', s.token_id, now')
         /\ {s \in sessions' : s.user_id # u} = {s \in sessions : s.user_id # u}
         /\ {s.token_id : s \in sessions'} = {s.token_id : s \in sessions}]_vars

\* an account's unexpired session stands revoked without a logout or refresh
\* having presented its token, while a session of the other account is usable
C22_Witness ==
  \E s, o \in sessions :
    /\ s.user_id # o.user_id
    /\ s.revoked = 1 /\ s.token_id \in revokedEver
    /\ now < InstantOf(s.expires_at)
    /\ isValid(sessions, o.token_id, now)

\* C23: at least one admin account always exists: in every state reached by
\* admin PUT /users/:id and DELETE /users/:id requests, in any order and
\* interleaving, the users table holds a row with is_admin = 1.
C23_AdminAlwaysExists == adminCount(users) >= 1

\* C29: when an admin PUT /users/:id that sets a new password has answered
\* success, the stored password hash of that account verifies the new
\* password (so a login with it started after the response succeeds, and one
\* with the old password fails), whatever else ran in between.
C29_PasswordStoredAtResponse ==
  (resp.op = "updatePassword" /\ resp.status = 200)
    => getById(users, pendingUpdate.id).password_hash
         = bcryptHash(pendingUpdate.password)

C25_DecryptNeverRaises ==
  opened.called =>
    LET v == opened.input
        current == v.kind = "enc" /\ v.key = ENCRYPTION_KEY_BUF
        legacy == v.kind = "enc" /\ v.key = getLegacyKey
    IN /\ opened.output.kind = "text"
       /\ opened.output = IF current \/ legacy THEN Text(v.text) ELSE Text("")

\* decrypt was handed a value encrypted under a key that is neither the
\* current nor the legacy key of the process, and returned ''
C25_Witness ==
  /\ opened.called
  /\ opened.input.kind = "enc"
  /\ opened.input.key # ENCRYPTION_KEY_BUF
  /\ opened.input.key # getLegacyKey
  /\ opened.output = Text("")

\* C26: resolving a request changes no stored state: in every step in which
\* GET /auth/me answers, whatever the request carried and however it was
\* resolved, the sessions table and the users table (last_login included) are
\* as they were.
C26_ResolutionReadsOnly ==
  [][resp'.op = "me" => (sessions' = sessions /\ users' = users)]_vars

\* a request was resolved by its token, after time has passed since the login
\* that set last_login and created the session
C26_Witness ==
  /\ resp.op = "me" /\ resp.status = 200
  /\ resp.user.authMethod = "jwt"
  /\ now > 0
  /\ users[resp.user.id].last_login = datetimeNow(0)
  /\ \E s \in sessions :
       s.token_id = resp.user.tokenId /\ s.expires_at = toISOString(JWT_EXPIRY)

\* C30: an API key that matches no account does not reject the request:
\* whenever a request can arrive, a request with such a key resolves as the
\* same request without the key does: with a usable session token of an
\* existing account to that account with authMethod 'jwt' and the token's id,
\* and with no usable token to anonymous.
C30_UnknownKeyFallsThrough ==
  resp = NoResp =>
    \A req \in Requests :
      LET user == authenticate(users, sessions, req, now)
          decoded == verifyToken(sessions, extractToken(req), now)
          usable == extractToken(req) # NoToken /\ decoded # NoToken
                      /\ getById(users, decoded.sub) # NoUser
      IN (req.apiKey # 0 /\ getByApiKey(users, req.apiKey) = NoUser) =>
           /\ user = authenticate(users, sessions, [req EXCEPT !.apiKey = 0], now)
           /\ usable => /\ user.authMethod = "jwt"
                        /\ user.id = decoded.sub
                        /\ user.tokenId = decoded.jti
           /\ ~usable => user = Anonymous

\* a request can arrive with an API key that matches no account and a usable
\* session token
C30_Witness ==
  /\ resp = NoResp
  /\ \E req \in Requests :
       /\ req.apiKey # 0
       /\ getByApiKey(users, req.apiKey) = NoUser
       /\ verifyToken(sessions, extractToken(req), now) # NoToken
       /\ authenticate(users, sessions, req, now).authMethod = "jwt"

\* the requests that present one credential: an API key, or a signed token
KeyRequest(k) == [apiKey |-> k, bearer |-> NoToken, cookie |-> NoToken]
TokenRequest(tk) == [apiKey |-> 0, bearer |-> tk, cookie |-> NoToken]

\* C27: after an account is deleted no credential issued to it authenticates:
\* in the step that deletes it, its session rows go with it, every token
\* signed for it resolves to anonymous and an API key that matched it matches
\* no account; and at all times no account that is gone has a session row or
\* is the identity any request resolves to.
C27_DeletedAccountLocked ==
  /\ [](\A id \in UserIds :
          users[id] = NoUser =>
            /\ \A s \in sessions : s.user_id # id
            /\ \A req \in Requests :
                 authenticate(users, sessions, req, now).id # id)
  /\ [][\A id \in UserIds :
          (users[id] # NoUser /\ users'[id] = NoUser) =>
            /\ \A s \in sessions' : s.user_id # id
            /\ \A tk \in tokens :
                 tk.sub = id =>
                   authenticate(users', sessions', TokenRequest(tk), now') = Anonymous
            /\ \A k \in ApiKeys :
                 getByApiKey(users, k).id = id =>
                   /\ getByApiKey(users', k) = NoUser
                   /\ authenticate(users', sessions', KeyRequest(k), now') = Anonymous]_vars

\* an account is gone that had logged in and had been issued an API key: its
\* token is still signed and unexpired, its key matches no account
C27_Witness ==
  \E id \in UserIds :
    /\ users[id] = NoUser
    /\ \E tk \in tokens : tk.sub = id /\ jwtVerify(tk, now)
    /\ \E k \in ApiKeys : issuedAs[k] # "none" /\ getByApiKey(users, k) = NoUser
    /\ \A other \in UserIds \ {id} : users[other].api_key = NoKey

\* every API key value generated so far or next
AllKeys == 1..MaxKeys

\* the keys that authenticate as account id when the users table is U
KeysOf(U, id) == {k \in AllKeys : getByApiKey(U, k).id = id}

\* C28: at any time at most one API key authenticates as a given account; a
\* step that generates a key for an account makes the new key the only one
\* that authenticates as it, so the key issued before stops at once; after a
\* revocation no key authenticates as the account; and a key starts to
\* authenticate as an account only in a step that generates it.
C28_OneKeyPerAccount ==
  /\ [](\A id \in UserIds : Cardinality(KeysOf(users, id)) <= 1)
  /\ [][\A id \in UserIds :
          /\ (resp'.op \in {"apiKey", "accountApiKey"} /\ resp'.status = 200
                /\ users'[id] # users[id])
               => /\ KeysOf(users', id) = {nextKey}
                  /\ nextKey \notin KeysOf(users, id)
          /\ (resp'.op = "accountApiKeyRevoke" /\ resp'.status = 200
                /\ resp'.user.id = id)
               => KeysOf(users', id) = {}
          /\ ~(KeysOf(users', id) \subseteq KeysOf(users, id))
               => (resp'.op \in {"apiKey", "accountApiKey"} /\ resp'.status = 200)]_vars

\* an account generated a key a second time: the second key authenticates as
\* it and the first matches no account
C28_Witness ==
  /\ resp.op = "accountApiKey" /\ resp.status = 200
  /\ nextKey = 3
  /\ KeysOf(users, resp.user.id) = {2}
  /\ getByApiKey(users, 1) = NoUser
====
